---- MODULE Spec2Model ----
(***************************************************************************)
(* Model of Zero-nnkn/ml-utils:                                            *)
(*   src/general/dir_utils.py          random_split                        *)
(*   src/cv/pose/openpose/openpose.py  OpenPosePredictor and               *)
(*                                     add_keypoints_to_json               *)
(***************************************************************************)
EXTENDS Integers, Sequences, FiniteSets, TLC

(***************************************************************************)
(* Python floats (IEEE-754 binary64, round to nearest, ties to even).      *)
(* A float is [s |-> sign, m |-> 53 bits, most significant first and       *)
(* leading, e |-> exponent of the last bit]; its value is                  *)
(* (-1)^s * m * 2^e.  Zero has the empty mantissa.                         *)
(***************************************************************************)
MantBits == 53

FZero == [s |-> 0, m |-> <<>>, e |-> 0]

Zeros(k) == <<>> \o [i \in 1..k |-> 0]

MinOf(S) == CHOOSE i \in S : \A j \in S : i <= j

StripZeros(b) ==
    LET ones == { i \in 1..Len(b) : b[i] = 1 }
    IN  IF ones = {} THEN <<>> ELSE SubSeq(b, MinOf(ones), Len(b))

\* b with zeros in front, to length len
PadTo(b, len) == Zeros(len - Len(b)) \o b

RECURSIVE BitsToNat(_)
BitsToNat(b) ==
    IF b = <<>> THEN 0
    ELSE 2 * BitsToNat(SubSeq(b, 1, Len(b) - 1)) + b[Len(b)]

RECURSIVE NatToBits(_)
NatToBits(k) ==
    IF k = 0 THEN <<>> ELSE Append(NatToBits(k \div 2), k % 2)

\* a + b for bit strings of one length, the carry out in front.
\* A carry reaches place i when a lower place holds two ones and the
\* places between hold exactly one.
AddSameLen(a, b) ==
    LET len == Len(a)
        carry(i) == IF \E j \in (i + 1)..len :
                           /\ a[j] = 1 /\ b[j] = 1
                           /\ \A k \in (i + 1)..(j - 1) : a[k] + b[k] = 1
                    THEN 1 ELSE 0
    IN  <<carry(0)>> \o [i \in 1..len |-> (a[i] + b[i] + carry(i)) % 2]

AddBits(a, b) ==
    LET len == IF Len(a) > Len(b) THEN Len(a) ELSE Len(b)
    IN  AddSameLen(PadTo(a, len), PadTo(b, len))

\* a - b for bit strings of one length, a >= b.
\* Place i lends when a lower place has a zero over a one and the places
\* between are equal.
SubSameLen(a, b) ==
    LET len == Len(a)
        borrow(i) == IF \E j \in (i + 1)..len :
                            /\ a[j] < b[j]
                            /\ \A k \in (i + 1)..(j - 1) : a[k] = b[k]
                     THEN 1 ELSE 0
    IN  <<>> \o [i \in 1..len |-> (a[i] - b[i] - borrow(i)) % 2]

SubBits(a, b) ==
    LET len == IF Len(a) > Len(b) THEN Len(a) ELSE Len(b)
    IN  SubSameLen(PadTo(a, len), PadTo(b, len))

\* a * k for a small natural k, by shifting and adding
RECURSIVE MulBits(_, _)
MulBits(a, k) ==
    IF k = 0 THEN <<>>
    ELSE AddBits(IF k % 2 = 1 THEN a ELSE <<>>, MulBits(a, k \div 2) \o <<0>>)

\* -1, 0, 1 as a < b, a = b, a > b (bit strings, most significant first)
CmpBits(a, b) ==
    LET x    == StripZeros(a)
        y    == StripZeros(b)
        diff == { i \in 1..Len(x) : x[i] # y[i] }
    IN  IF Len(x) # Len(y) THEN (IF Len(x) > Len(y) THEN 1 ELSE -1)
        ELSE IF diff = {} THEN 0
        ELSE IF x[MinOf(diff)] > y[MinOf(diff)] THEN 1 ELSE -1

\* The float nearest to (-1)^s * bits * 2^e, ties to even.
FRound(s, bits, e) ==
    LET b == StripZeros(bits)
        L == Len(b)
    IN  IF L = 0 THEN FZero
        ELSE IF L <= MantBits
        THEN [s |-> s, m |-> b \o Zeros(MantBits - L), e |-> e - (MantBits - L)]
        ELSE LET keep   == SubSeq(b, 1, MantBits)
                 guard  == b[MantBits + 1]
                 sticky == \E i \in (MantBits + 2)..L : b[i] = 1
                 up     == guard = 1 /\ (sticky \/ keep[MantBits] = 1)
                 r      == IF up THEN StripZeros(AddBits(keep, <<1>>)) ELSE keep
             IN  IF Len(r) > MantBits
                 THEN [s |-> s, m |-> SubSeq(r, 1, MantBits), e |-> e + (L - MantBits) + 1]
                 ELSE [s |-> s, m |-> r, e |-> e + (L - MantBits)]

\* 2^i % 10: 1, then 2, 4, 8, 6 over again
Pow2Mod10(i) == IF i = 0 THEN 1 ELSE <<2, 4, 8, 6>>[((i - 1) % 4) + 1]

\* (r * 2^count) % 10
FracRem(r, count) == (r * Pow2Mod10(count)) % 10

\* count bits of the binary expansion of r / 10 (0 <= r < 10)
FracBits(r, count) ==
    <<>> \o [i \in 1..count |-> IF 2 * FracRem(r, i - 1) >= 10 THEN 1 ELSE 0]

\* enough digits for 53 significant bits, a guard bit and leading zeros
FracDigits == MantBits + 7

\* The float a decimal literal with one fractional digit denotes: t / 10.
FromTenths(t) ==
    LET a    == IF t < 0 THEN -t ELSE t
        tail == IF FracRem(a % 10, FracDigits) = 0 THEN 0 ELSE 1
    IN  FRound(IF t < 0 THEN 1 ELSE 0,
               NatToBits(a \div 10) \o FracBits(a % 10, FracDigits) \o <<tail>>,
               -(FracDigits + 1))

\* x + y
FAdd(x, y) ==
    IF x.m = <<>> THEN y
    ELSE IF y.m = <<>> THEN x
    ELSE LET e  == IF x.e < y.e THEN x.e ELSE y.e
             mx == x.m \o Zeros(x.e - e)
             my == y.m \o Zeros(y.e - e)
             c  == CmpBits(mx, my)
         IN  IF x.s = y.s THEN FRound(x.s, AddBits(mx, my), e)
             ELSE IF c = 0 THEN FZero
             ELSE IF c > 0 THEN FRound(x.s, SubBits(mx, my), e)
             ELSE FRound(y.s, SubBits(my, mx), e)

\* k * x for an int k >= 0 (k converts to float exactly)
FMulInt(k, x) ==
    IF k = 0 \/ x.m = <<>> THEN FZero ELSE FRound(x.s, MulBits(x.m, k), x.e)

\* x <= 1
FLeqOne(x) ==
    \/ x.m = <<>>
    \/ x.s = 1
    \/ MantBits + x.e <= 0
    \/ x.e = 1 - MantBits /\ x.m = <<1>> \o Zeros(MantBits - 1)

\* int(x): truncation toward zero
PyInt(x) ==
    LET k   == MantBits + x.e
        mag == IF x.m = <<>> \/ k <= 0 THEN 0
               ELSE IF x.e >= 0 THEN BitsToNat(x.m \o Zeros(x.e))
               ELSE BitsToNat(SubSeq(x.m, 1, k))
    IN  IF x.s = 1 THEN -mag ELSE mag

(***************************************************************************)
(* Python list slicing lst[lo:hi] on 1-based sequences: a negative index   *)
(* counts from the end, and both ends are clamped to the list.             *)
(***************************************************************************)
SliceIndex(i, len) ==
    IF i < 0 THEN (IF i + len < 0 THEN 0 ELSE i + len)
    ELSE IF i > len THEN len ELSE i

PySlice(lst, lo, hi) ==
    LET a == SliceIndex(lo, Len(lst))
        b == SliceIndex(hi, Len(lst))
    IN  IF a >= b THEN <<>> ELSE SubSeq(lst, a + 1, b)

(***************************************************************************)
(* State.  random_split (src/general/dir_utils.py) works on the first      *)
(* group, the pose predictor (src/cv/pose/openpose/openpose.py) on the     *)
(* second.                                                                 *)
(***************************************************************************)
VARIABLES
    pc,           \* position in random_split
    train_ratio,  \* argument, in tenths (7 is the literal 0.7)
    val_ratio,    \* argument, in tenths
    move,         \* argument
    src0,         \* files under input_path when the call starts
    src,          \* files under input_path now
    pre,          \* destination directories existing when the call starts
    dirs,         \* destination directories existing now
    made,         \* destination directories this run created
    dest,         \* destination files now: <<directory, base name, origin>>
    fp,           \* the file list, shuffled at line 49
    train, val, test,  \* the three slices
    done,         \* jobs the copy loops have gone through
    copied,       \* the jobs that succeeded, in order
    failed_at,    \* the job whose copy or move raised (0: none)
    report,       \* what line 62 printed (<<>>: nothing)
    pose_pc,      \* what the caller of the pose predictor has done
    model,        \* the OpenPosePredictor subclass
    net_ouput,    \* pose_net.forward(): per channel, the rows of its map
    img_size,     \* (img_w, img_h) of the caller's image
    images,       \* the image objects, each the set of things drawn on it
    threshold,    \* the threshold predict ran with
    vis_threshold,  \* the threshold argument of visualize
    put_text,     \* the put_text argument of visualize
    missing_val,  \* the missing_val argument of add_keypoints_to_json
    keypoints,    \* the list predict returned
    shown,        \* the image object visualize returned (0: none)
    pose_json     \* what add_keypoints_to_json returned

splitVars == <<pc, train_ratio, val_ratio, move, src0, src, pre, dirs, made,
               dest, fp, train, val, test, done, copied, failed_at, report>>

poseVars == <<pose_pc, model, net_ouput, img_size, images, threshold, vis_threshold,
              put_text, missing_val, keypoints, shown, pose_json>>

vars == <<splitVars, poseVars>>

(***************************************************************************)
(* Inputs of the model.                                                    *)
(***************************************************************************)
\* A path under input_path is <<sub-directory, base name>>.
Paths == { <<"a", "x.jpg">>, <<"b", "x.jpg">>, <<"a", "y.jpg">>, <<"b", "y.jpg">> }

MaxFiles == 3

\* ratios of the file-system runs, in tenths
SplitTenths == {-5, 0, 3, 5, 8, 10}

\* ratios and list lengths of the runs of the cut alone
MaxTenths == 10
MaxN == 10

\* the destination tree is fresh, or left by an earlier run
PreDirs == { {}, {"train", "val"}, {"train", "val", "test"} }

Basename(p) == p[2]

\* every order random.shuffle can leave the list in (line 49)
Shuffles(S) ==
    { f \in [1..Cardinality(S) -> S] : \A i, j \in DOMAIN f : i # j => f[i] # f[j] }

(***************************************************************************)
(* random_split, lines 32-54: the precondition, the cut indices, the       *)
(* slices.                                                                 *)
(***************************************************************************)
\* The float of every ratio the runs draw, worked out once.
LowTenth == MinOf(SplitTenths \cup {0})

FloatTable ==
    <<>> \o [i \in 1..(MaxTenths - LowTenth + 1) |-> FromTenths(LowTenth + i - 1)]

\* the float argument a ratio given in tenths is
Float(t) == FloatTable[t - LowTenth + 1]

\* the assert of line 32 left out
RatiosUnchecked(tr, vr) == TRUE

\* train_ratio + val_ratio <= 1  (line 32)
RatiosOk(tr, vr) == FLeqOne(FAdd(Float(tr), Float(vr)))

\* int(n * train_ratio)  (lines 51-52)
TrainEnd(n, tr) == PyInt(FMulInt(n, Float(tr)))

\* int(n * (train_ratio + val_ratio))  (lines 45, 52, 53)
ValEnd(n, tr, vr) == PyInt(FMulInt(n, FAdd(Float(tr), Float(vr))))

\* line 45 with >= for >
NeedTestDirOrEqual(n, tr, vr) == n >= ValEnd(n, tr, vr)

\* n > int(n * (train_ratio + val_ratio))  (line 45)
NeedTestDir(n, tr, vr) == n > ValEnd(n, tr, vr)

\* lines 50-54
Slices(lst, tr, vr) ==
    LET n == Len(lst)
        a == TrainEnd(n, tr)
        b == ValEnd(n, tr, vr)
    IN  [train |-> PySlice(lst, 0, a),
         val   |-> PySlice(lst, a, b),
         test  |-> PySlice(lst, b, n)]

Jobs(files, d) == [i \in 1..Len(files) |-> <<files[i], d>>]

\* lines 57-60: the copies in the order the three copy_files calls make them
Plan(tr, va, te) ==
    Jobs(tr, "train") \o Jobs(va, "val")
        \o (IF Len(te) > 0 THEN Jobs(te, "test") ELSE <<>>)

(***************************************************************************)
(* random_split as a state machine.                                        *)
(***************************************************************************)
NoReport == <<>>

\* the pose predictor's state while random_split is what runs
PoseUnused ==
    /\ pose_pc = "unused"
    /\ model = "COCO"
    /\ net_ouput = <<>>
    /\ img_size = <<0, 0>>
    /\ images = <<>>
    /\ threshold = <<0, 1>>
    /\ vis_threshold = <<0, 1>>
    /\ put_text = FALSE
    /\ missing_val = <<0, 1>>
    /\ keypoints = <<>>
    /\ shown = 0
    /\ pose_json = <<>>

\* random_split's state while something else runs
SplitUnused ==
    /\ pc = "unused"
    /\ train_ratio = 0
    /\ val_ratio = 0
    /\ move = FALSE
    /\ src0 = {}
    /\ src = {}
    /\ pre = {}
    /\ dirs = {}
    /\ made = {}
    /\ dest = {}
    /\ fp = <<>>
    /\ train = <<>>
    /\ val = <<>>
    /\ test = <<>>
    /\ done = 0
    /\ copied = <<>>
    /\ failed_at = 0
    /\ report = NoReport

InitSplit ==
    /\ pc = "call"
    /\ train_ratio \in SplitTenths
    /\ val_ratio \in SplitTenths
    /\ move \in BOOLEAN
    /\ src0 \in { S \in SUBSET Paths : Cardinality(S) <= MaxFiles }
    /\ src = src0
    /\ pre \in PreDirs
    /\ dirs = pre
    /\ made = {}
    /\ dest = {}
    /\ fp = <<>>
    /\ train = <<>>
    /\ val = <<>>
    /\ test = <<>>
    /\ done = 0
    /\ copied = <<>>
    /\ failed_at = 0
    /\ report = NoReport
    /\ PoseUnused

\* lines 32-37: the two asserts; glob finds the files under input_path
Validate ==
    /\ pc = "call"
    /\ pc' = IF RatiosOk(train_ratio, val_ratio) /\ Cardinality(src) > 0
             THEN "mkdir" ELSE "assert_failed"
    /\ UNCHANGED <<train_ratio, val_ratio, move, src0, src, pre, dirs, made, dest,
                   fp, train, val, test, done, copied, failed_at, report>>
    /\ UNCHANGED poseVars

\* lines 40-46: mkdir(parents=True, exist_ok=True)
MakeDirs ==
    /\ pc = "mkdir"
    /\ dirs' = dirs \cup {"train", "val"}
                 \cup (IF NeedTestDir(Cardinality(src), train_ratio, val_ratio)
                       THEN {"test"} ELSE {})
    /\ made' = dirs' \ dirs
    /\ pc' = "shuffle"
    /\ UNCHANGED <<train_ratio, val_ratio, move, src0, src, pre, dest,
                   fp, train, val, test, done, copied, failed_at, report>>
    /\ UNCHANGED poseVars

\* lines 49-54: random.shuffle, then the three slices
ShuffleAndSlice ==
    /\ pc = "shuffle"
    /\ \E order \in Shuffles(src) :
          /\ fp' = order
          /\ train' = Slices(order, train_ratio, val_ratio).train
          /\ val' = Slices(order, train_ratio, val_ratio).val
          /\ test' = Slices(order, train_ratio, val_ratio).test
    /\ pc' = "copy"
    /\ UNCHANGED <<train_ratio, val_ratio, move, src0, src, pre, dirs, made, dest,
                   done, copied, failed_at, report>>
    /\ UNCHANGED poseVars

\* shutil.move / shutil.copy2 of job <<file, directory>> cannot succeed:
\* the source is gone, the directory is missing, or (move only) the
\* destination name is taken
MustFail(job) ==
    \/ job[1] \notin src
    \/ job[2] \notin dirs
    \/ move /\ \E f \in dest : f[1] = job[2] /\ f[2] = Basename(job[1])

\* copy_func(file, des_dir) returning normally (line 30)
CopyOk(job) ==
    /\ dest' = { f \in dest : ~(f[1] = job[2] /\ f[2] = Basename(job[1])) }
                 \cup { <<job[2], Basename(job[1]), job[1]>> }
    /\ src' = IF move THEN src \ {job[1]} ELSE src
    /\ copied' = Append(copied, job)
    /\ done' = done + 1
    /\ UNCHANGED <<pc, failed_at>>

\* copy_files catching the error and going on to the next file
CopySwallows(job) ==
    /\ failed_at' = done + 1
    /\ done' = done + 1
    /\ UNCHANGED <<pc, dest, src, copied>>

\* copy_func(file, des_dir) raising: nothing catches it (lines 29-30, 57-60)
CopyRaises(job) ==
    /\ pc' = "raised"
    /\ failed_at' = done + 1
    /\ UNCHANGED <<dest, src, copied, done>>

\* lines 57-60, one file
CopyFile ==
    /\ pc = "copy"
    /\ done < Len(Plan(train, val, test))
    /\ LET job == Plan(train, val, test)[done + 1]
       IN  \/ ~MustFail(job) /\ CopyOk(job)
           \/ CopyRaises(job)
    /\ UNCHANGED <<train_ratio, val_ratio, move, src0, pre, dirs, made,
                   fp, train, val, test, report>>
    /\ UNCHANGED poseVars

\* line 62
Report ==
    /\ pc = "copy"
    /\ done = Len(Plan(train, val, test))
    /\ report' = <<Len(train), Len(val), Len(test)>>
    /\ pc' = "done"
    /\ UNCHANGED <<train_ratio, val_ratio, move, src0, src, pre, dirs, made, dest,
                   fp, train, val, test, done, copied, failed_at>>
    /\ UNCHANGED poseVars

Next == Validate \/ MakeDirs \/ ShuffleAndSlice \/ CopyFile \/ Report

Spec == InitSplit /\ [][Next]_vars

(***************************************************************************)
(* The cut alone (lines 32 and 50-54) on a list of n items, fp standing    *)
(* for the shuffled list by the places of its items.                       *)
(***************************************************************************)
InitCut ==
    /\ pc = "call"
    /\ train_ratio \in 0..MaxTenths
    /\ val_ratio \in 0..MaxTenths
    /\ fp \in { [i \in 1..n |-> i] : n \in 1..MaxN }
    /\ move = FALSE
    /\ src0 = {}
    /\ src = {}
    /\ pre = {}
    /\ dirs = {}
    /\ made = {}
    /\ dest = {}
    /\ train = <<>>
    /\ val = <<>>
    /\ test = <<>>
    /\ done = 0
    /\ copied = <<>>
    /\ failed_at = 0
    /\ report = NoReport
    /\ PoseUnused

Cut ==
    /\ pc = "call"
    /\ IF RatiosOk(train_ratio, val_ratio)
       THEN /\ train' = Slices(fp, train_ratio, val_ratio).train
            /\ val' = Slices(fp, train_ratio, val_ratio).val
            /\ test' = Slices(fp, train_ratio, val_ratio).test
            /\ pc' = "sliced"
       ELSE /\ pc' = "assert_failed"
            /\ UNCHANGED <<train, val, test>>
    /\ UNCHANGED <<train_ratio, val_ratio, move, src0, src, pre, dirs, made, dest,
                   fp, done, copied, failed_at, report>>
    /\ UNCHANGED poseVars

NextCut == Cut

SpecCut == InitCut /\ [][NextCut]_vars

(***************************************************************************)
(* OpenPosePredictor (src/cv/pose/openpose/openpose.py).                   *)
(* Numbers are fractions <<numerator, denominator>>, denominator > 0.      *)
(***************************************************************************)
None == <<>>

Gt(a, b) == a[1] * b[2] > b[1] * a[2]

\* int(x) for x >= 0
IntOf(x) == x[1] \div x[2]

\* COCOOpenPosePredictor._init__model_infor
COCO_BODY_PARTS ==
    "Nose" :> 0 @@ "Neck" :> 1 @@ "RShoulder" :> 2 @@ "RElbow" :> 3
      @@ "RWrist" :> 4 @@ "LShoulder" :> 5 @@ "LElbow" :> 6 @@ "LWrist" :> 7
      @@ "RHip" :> 8 @@ "RKnee" :> 9 @@ "RAnkle" :> 10 @@ "LHip" :> 11
      @@ "LKnee" :> 12 @@ "LAnkle" :> 13 @@ "REye" :> 14 @@ "LEye" :> 15
      @@ "REar" :> 16 @@ "LEar" :> 17 @@ "Background" :> 18

COCO_POSE_PAIRS ==
    << <<"Neck", "RShoulder">>, <<"RShoulder", "RElbow">>, <<"RElbow", "RWrist">>,
       <<"Neck", "LShoulder">>, <<"LShoulder", "LElbow">>, <<"LElbow", "LWrist">>,
       <<"Neck", "RHip">>, <<"RHip", "RKnee">>, <<"RKnee", "RAnkle">>,
       <<"Neck", "LHip">>, <<"LHip", "LKnee">>, <<"LKnee", "LAnkle">>,
       <<"Neck", "Nose">>, <<"Nose", "REye">>, <<"REye", "REar">>,
       <<"Nose", "LEye">>, <<"LEye", "LEar">> >>

\* MPIOpenPosePredictor._init__model_infor
MPI_BODY_PARTS ==
    "Head" :> 0 @@ "Neck" :> 1 @@ "RShoulder" :> 2 @@ "RElbow" :> 3
      @@ "RWrist" :> 4 @@ "LShoulder" :> 5 @@ "LElbow" :> 6 @@ "LWrist" :> 7
      @@ "RHip" :> 8 @@ "RKnee" :> 9 @@ "RAnkle" :> 10 @@ "LHip" :> 11
      @@ "LKnee" :> 12 @@ "LAnkle" :> 13 @@ "Chest" :> 14 @@ "Background" :> 15

MPI_POSE_PAIRS ==
    << <<"Head", "Neck">>, <<"Neck", "RShoulder">>, <<"RShoulder", "RElbow">>,
       <<"RElbow", "RWrist">>, <<"Neck", "LShoulder">>, <<"LShoulder", "LElbow">>,
       <<"LElbow", "LWrist">>, <<"Neck", "Chest">>, <<"Chest", "RHip">>,
       <<"RHip", "RKnee">>, <<"RKnee", "RAnkle">>, <<"Chest", "LHip">>,
       <<"LHip", "LKnee">>, <<"LKnee", "LAnkle">> >>

\* Body25OpenPosePredictor._init__model_infor
BODY_25_BODY_PARTS ==
    "Nose" :> 0 @@ "Neck" :> 1 @@ "RShoulder" :> 2 @@ "RElbow" :> 3
      @@ "RWrist" :> 4 @@ "LShoulder" :> 5 @@ "LElbow" :> 6 @@ "LWrist" :> 7
      @@ "MidHip" :> 8 @@ "RHip" :> 9 @@ "RKnee" :> 10 @@ "RAnkle" :> 11
      @@ "LHip" :> 12 @@ "LKnee" :> 13 @@ "LAnkle" :> 14 @@ "REye" :> 15
      @@ "LEye" :> 16 @@ "REar" :> 17 @@ "LEar" :> 18 @@ "LBigToe" :> 19
      @@ "LSmallToe" :> 20 @@ "LHeel" :> 21 @@ "RBigToe" :> 22 @@ "RSmallToe" :> 23
      @@ "RHeel" :> 24 @@ "Background" :> 25

BODY_25_POSE_PAIRS ==
    << <<"Neck", "Nose">>, <<"Neck", "RShoulder">>, <<"RShoulder", "RElbow">>,
       <<"RElbow", "RWrist">>, <<"Neck", "LShoulder">>, <<"LShoulder", "LElbow">>,
       <<"LElbow", "LWrist">>, <<"Nose", "REye">>, <<"REye", "REar">>,
       <<"Nose", "LEye">>, <<"LEye", "LEar">>, <<"Neck", "MidHip">>,
       <<"MidHip", "RHip">>, <<"RHip", "RKnee">>, <<"RKnee", "RAnkle">>,
       <<"RAnkle", "RBigToe">>, <<"RBigToe", "RSmallToe">>, <<"RAnkle", "RHeel">>,
       <<"MidHip", "LHip">>, <<"LHip", "LKnee">>, <<"LKnee", "LAnkle">>,
       <<"LAnkle", "LBigToe">>, <<"LBigToe", "LSmallToe">>, <<"LAnkle", "LHeel">> >>

Models == {"COCO", "MPI", "BODY_25"}

BODY_PARTS(m) ==
    IF m = "COCO" THEN COCO_BODY_PARTS
    ELSE IF m = "MPI" THEN MPI_BODY_PARTS ELSE BODY_25_BODY_PARTS

POSE_PAIRS(m) ==
    IF m = "COCO" THEN COCO_POSE_PAIRS
    ELSE IF m = "MPI" THEN MPI_POSE_PAIRS ELSE BODY_25_POSE_PAIRS

\* len(self.BODY_PARTS)
NumParts(m) == Cardinality(DOMAIN BODY_PARTS(m))

\* cv2.minMaxLoc(probMap): the greatest value and the first place, rows
\* scanned in order, that holds it; the place is (column, row) from 0.
MinMaxLoc(probMap) ==
    LET H     == Len(probMap)
        W     == Len(probMap[1])
        cells == (1..H) \X (1..W)
        top   == CHOOSE c \in cells :
                     \A d \in cells : probMap[c[1]][c[2]] >= probMap[d[1]][d[2]]
        first == CHOOSE c \in cells :
                     /\ probMap[c[1]][c[2]] = probMap[top[1]][top[2]]
                     /\ \A d \in cells :
                            probMap[d[1]][d[2]] = probMap[top[1]][top[2]]
                                => (c[1] - 1) * W + c[2] <= (d[1] - 1) * W + d[2]
    IN  [maxVal |-> probMap[first[1]][first[2]], maxLoc |-> <<first[2] - 1, first[1] - 1>>]

\* line 122 with >= for >
DetectedOrEqual(prob, thr) == ~Gt(thr, prob)

\* prob > threshold  (line 122)
Detected(prob, thr) == Gt(prob, thr)

\* _parse_keypoints, lines 108-127; map values are hundredths
ParseKeypoints(m, out, size, thr) ==
    <<>> \o [idx \in 1..NumParts(m) |->
        LET H    == Len(out[idx])
            W    == Len(out[idx][1])
            mm   == MinMaxLoc(out[idx])
            prob == <<mm.maxVal, 100>>
            x    == <<size[1] * mm.maxLoc[1], W>>
            y    == <<size[2] * mm.maxLoc[2], H>>
        IN  IF Detected(prob, thr) THEN <<x, y, prob>> ELSE None]

\* threshold: float = 0.05  (line 61)
PredictDefault == <<5, 100>>

\* threshold: float = 0  (line 130)
VisualizeDefault == <<0, 1>>

\* predict, lines 72-76, on the network output of the image
Predict(m, out, size, thr) == ParseKeypoints(m, out, size, thr)

\* keypoints[i] is not None and keypoints[i][-1] > threshold  (line 173)
PointVisible(kps, i, thr) == kps[i] # None /\ Gt(kps[i][Len(kps[i])], thr)

\* _visualize_points, lines 172-195: what it draws on the image it is given
PointMarks(m, kps, text, thr) ==
    { <<"circle", i - 1, IntOf(kps[i][1]), IntOf(kps[i][2])>> :
          i \in { k \in 1..NumParts(m) : PointVisible(kps, k, thr) } }
    \cup
    { <<"text", i - 1, IntOf(kps[i][1]), IntOf(kps[i][2])>> :
          i \in { k \in 1..NumParts(m) : text /\ PointVisible(kps, k, thr) } }

\* lines 154-159 without the threshold test of the second end
EdgeVisibleFirstOnly(kps, p1, p2, thr) ==
    /\ kps[p1] # None
    /\ Gt(kps[p1][Len(kps[p1])], thr)
    /\ kps[p2] # None

\* the condition of lines 154-159, p1 and p2 counted from 1
EdgeVisible(kps, p1, p2, thr) ==
    /\ kps[p1] # None
    /\ Gt(kps[p1][Len(kps[p1])], thr)
    /\ kps[p2] # None
    /\ Gt(kps[p2][Len(kps[p2])], thr)

\* lines 151-162: the segments, each with the place of its pair in POSE_PAIRS
PairLines(m, kps, thr) ==
    { <<"line", k, IntOf(kps[BODY_PARTS(m)[POSE_PAIRS(m)[k][1]] + 1][1]),
                   IntOf(kps[BODY_PARTS(m)[POSE_PAIRS(m)[k][1]] + 1][2]),
                   IntOf(kps[BODY_PARTS(m)[POSE_PAIRS(m)[k][2]] + 1][1]),
                   IntOf(kps[BODY_PARTS(m)[POSE_PAIRS(m)[k][2]] + 1][2])>> :
          k \in { j \in 1..Len(POSE_PAIRS(m)) :
                     EdgeVisible(kps, BODY_PARTS(m)[POSE_PAIRS(m)[j][1]] + 1,
                                      BODY_PARTS(m)[POSE_PAIRS(m)[j][2]] + 1, thr) } }

\* line 143 without the copy: img_copy is img itself
ImgAlias(heap, img) == [heap |-> heap, ref |-> img]

\* img.copy() (line 143): a new image object with the same content
ImgCopy(heap, img) == [heap |-> Append(heap, heap[img]), ref |-> Len(heap) + 1]

\* cv2.circle, cv2.putText, cv2.line: they draw on the object they are given
DrawOn(heap, img, marks) == [heap EXCEPT ![img] = @ \cup marks]

\* visualize, lines 143-164: the image objects afterwards and the one returned
Visualized(heap, img, m, kps, text, thr) ==
    LET c  == ImgCopy(heap, img)
        h1 == DrawOn(c.heap, c.ref, PointMarks(m, kps, text, thr))
        h2 == DrawOn(h1, c.ref, PairLines(m, kps, thr))
    IN  [heap |-> h2, ref |-> c.ref]

\* line 352 filling in one value, not three
FillMissingOnce(p, mv) ==
    IF Len(p) > 0 THEN p ELSE <<mv>>

\* p if p else (missing_val,) * 3  (line 352)
FillMissing(p, mv) ==
    IF Len(p) > 0 THEN p ELSE <<mv, mv, mv>>

\* [item for p in keypoints for item in p]  (line 354)
RECURSIVE Flatten(_)
Flatten(ps) ==
    IF Len(ps) = 0 THEN <<>>
    ELSE IF Len(ps) = 1 THEN ps[1]
    ELSE Flatten(SubSeq(ps, 1, Len(ps) \div 2))
           \o Flatten(SubSeq(ps, Len(ps) \div 2 + 1, Len(ps)))

\* add_keypoints_to_json, lines 351-357, on the pose predict returned
PoseJson(pose, mv) ==
    [version |-> <<1, 1>>,
     people  |-> << [pose_keypoints |->
                       Flatten(<<>> \o [i \in 1..Len(pose) |->
                                           FillMissing(pose[i], mv)])] >>]

(***************************************************************************)
(* Inputs of the pose model.                                               *)
(***************************************************************************)
\* confidence maps of 2 rows and 2 columns, in hundredths
ProbMaps ==
    { << <<0, 0>>, <<0, 0>> >>,
      << <<0, 5>>, <<0, 0>> >>,
      << <<0, 0>>, <<6, 0>> >>,
      << <<0, 50>>, <<50, 0>> >> }

\* at most this many channels differ from the others
MaxOdd == 1

OddSets(n) == {{}} \cup { { f[i] : i \in 1..MaxOdd } : f \in [1..MaxOdd -> 1..n] }

NetOutputs(m) ==
    { [c \in 1..NumParts(m) |-> IF c \in S THEN A ELSE B] :
          S \in OddSets(NumParts(m)), A \in ProbMaps, B \in ProbMaps }

PredictThresholds == { PredictDefault, <<6, 100>> }

VisualizeThresholds == { VisualizeDefault, <<6, 100>> }

MissingVals == { <<0, 1>>, <<-1, 1>> }

\* (img_w, img_h)
ImageSizes == { <<5, 3>> }

\* the caller's image object
Img == 1

Photo(size) == { <<"photo", size[1], size[2]>> }

(***************************************************************************)
(* The pose predictor as a state machine: a caller with one image runs     *)
(* predict and then visualize, or add_keypoints_to_json.                   *)
(***************************************************************************)
InitPose ==
    /\ pose_pc = "idle"
    /\ model \in Models
    /\ net_ouput \in NetOutputs(model)
    /\ img_size \in ImageSizes
    /\ images = << Photo(img_size) >>
    /\ threshold = <<0, 1>>
    /\ vis_threshold = <<0, 1>>
    /\ put_text = FALSE
    /\ missing_val = <<0, 1>>
    /\ keypoints = <<>>
    /\ shown = 0
    /\ pose_json = <<>>
    /\ SplitUnused

\* keypoints = predictor.predict(img, threshold)
DoPredict ==
    /\ pose_pc = "idle"
    /\ \E thr \in PredictThresholds :
          /\ threshold' = thr
          /\ keypoints' = Predict(model, net_ouput, img_size, thr)
    /\ pose_pc' = "predicted"
    /\ UNCHANGED <<model, net_ouput, img_size, images, vis_threshold, put_text,
                   missing_val, shown, pose_json>>
    /\ UNCHANGED splitVars

\* predictor.visualize(keypoints, img, put_text, threshold)
DoVisualize ==
    /\ pose_pc = "predicted"
    /\ \E text \in BOOLEAN, thr \in VisualizeThresholds :
          /\ put_text' = text
          /\ vis_threshold' = thr
          /\ images' = Visualized(images, Img, model, keypoints, text, thr).heap
          /\ shown' = Visualized(images, Img, model, keypoints, text, thr).ref
    /\ pose_pc' = "visualized"
    /\ UNCHANGED <<model, net_ouput, img_size, threshold, missing_val, keypoints,
                   pose_json>>
    /\ UNCHANGED splitVars

\* add_keypoints_to_json(img, predictor, missing_val)
DoAddKeypointsToJson ==
    /\ pose_pc = "idle"
    /\ \E mv \in MissingVals :
          /\ missing_val' = mv
          /\ keypoints' = Predict(model, net_ouput, img_size, PredictDefault)
          /\ pose_json' = PoseJson(Predict(model, net_ouput, img_size, PredictDefault), mv)
    /\ threshold' = PredictDefault
    /\ pose_pc' = "json"
    /\ UNCHANGED <<model, net_ouput, img_size, images, vis_threshold, put_text, shown>>
    /\ UNCHANGED splitVars

NextPose == DoPredict \/ DoVisualize \/ DoAddKeypointsToJson

SpecPose == InitPose /\ [][NextPose]_vars

(***************************************************************************)
(* The claims.                                                             *)
(***************************************************************************)
Count(lst, x) == Cardinality({ i \in 1..Len(lst) : lst[i] = x })

IsPrefix(a, b) == Len(a) <= Len(b) /\ a = SubSeq(b, 1, Len(a))

\* C1: for every non-empty input and every (train_ratio, val_ratio) with
\* train_ratio + val_ratio <= 1, the three slices have n paths in all and
\* every input path is in exactly one of them.
C1_SlicesPartitionInput ==
    pc \in {"copy", "raised", "done"} =>
        /\ Len(train) + Len(val) + Len(test) = Cardinality(src0)
        /\ \A p \in src0 : Count(train, p) + Count(val, p) + Count(test, p) = 1

\* the greatest value of a confidence map
ChannelMax(probMap) ==
    LET vals == { probMap[r][c] : r \in 1..Len(probMap), c \in 1..Len(probMap[1]) }
    IN  CHOOSE v \in vals : \A w \in vals : v >= w

\* C2: slot i of the pose is a triple only if the maximum of channel i is
\* strictly above the threshold, and None only if it is at or below it; the
\* triple carries that maximum as its confidence.
C2_KeypointIffAboveThreshold ==
    pose_pc \in {"predicted", "json"} =>
        /\ Len(keypoints) = NumParts(model)
        /\ \A i \in 1..NumParts(model) :
              /\ keypoints[i] # None =>
                    /\ ChannelMax(net_ouput[i]) * threshold[2] > threshold[1] * 100
                    /\ Len(keypoints[i]) = 3
                    /\ keypoints[i][3] = <<ChannelMax(net_ouput[i]), 100>>
              /\ keypoints[i] = None =>
                    ChannelMax(net_ouput[i]) * threshold[2] <= threshold[1] * 100

\* C2's case: one channel peaks exactly at the threshold and is absent,
\* another is above it and present.
C2_Witness ==
    /\ pose_pc = "predicted"
    /\ \E i \in 1..NumParts(model) :
          /\ ChannelMax(net_ouput[i]) * threshold[2] = threshold[1] * 100
          /\ keypoints[i] = None
    /\ \E j \in 1..NumParts(model) : keypoints[j] # None

\* C3: the shuffled list is cut at floor(n * train_ratio) and at
\* floor(n * (train_ratio + val_ratio)); 0.7 and 0.2 on 10 files give
\* slices of 7, 2 and 1.
C3_CutAtFloor ==
    pc = "sliced" =>
        LET n == Len(fp)
            a == (n * train_ratio) \div 10
            b == (n * (train_ratio + val_ratio)) \div 10
        IN  /\ train = SubSeq(fp, 1, a)
            /\ val = SubSeq(fp, a + 1, b)
            /\ test = SubSeq(fp, b + 1, n)
            /\ (n = 10 /\ train_ratio = 7 /\ val_ratio = 2) =>
                   (Len(train) = 7 /\ Len(val) = 2 /\ Len(test) = 1)

\* C4: called with train_ratio + val_ratio > 1, or with no file under
\* input_path, random_split fails, and then no destination directory has
\* been created and no file copied or moved.
C4_FailsBeforeAnyChange ==
    (pc # "call" /\ (train_ratio + val_ratio > 10 \/ src0 = {})) =>
        /\ pc = "assert_failed"
        /\ made = {}
        /\ dirs = pre
        /\ dest = {}
        /\ src = src0
        /\ copied = <<>>

\* C4's case: 0.8 and 0.3 on a folder with files has failed.
C4_Witness ==
    /\ pc = "assert_failed"
    /\ train_ratio = 8
    /\ val_ratio = 3
    /\ src0 # {}

\* C5 as stated: in every successful run the test directory is created by
\* the run if and only if the test slice is non-empty.
C5_TestDirIffTestSlice ==
    pc = "done" => ("test" \in made <=> Len(test) > 0)

\* C5 amended: in every successful run the test directory exists at the end
\* whenever the test slice is non-empty, and the run creates it if and only
\* if the test slice is non-empty and the directory did not exist before;
\* with 0.5 and 0.5 the test slice is empty and no test directory is created.
C5_TestDirIffTestSliceAndNew ==
    /\ pc = "done" =>
          /\ "test" \in made <=> (Len(test) > 0 /\ "test" \notin pre)
          /\ Len(test) > 0 => "test" \in dirs
    /\ (pc \in {"copy", "raised", "done"} /\ train_ratio = 5 /\ val_ratio = 5) =>
          (Len(test) = 0 /\ "test" \notin made)

\* C5's case: a finished run with ratios in [0, 1] that had a test slice and
\* created the directory.
C5_Witness ==
    /\ pc = "done"
    /\ train_ratio >= 0
    /\ val_ratio >= 0
    /\ Len(test) > 0
    /\ "test" \in made

\* C6: the segment of a pair of POSE_PAIRS is drawn if and only if both its
\* keypoints are present and both confidences are strictly above the
\* threshold.
C6_EdgeIffBothVisible ==
    pose_pc = "visualized" =>
        \A k \in 1..Len(POSE_PAIRS(model)) :
            LET a == keypoints[BODY_PARTS(model)[POSE_PAIRS(model)[k][1]] + 1]
                b == keypoints[BODY_PARTS(model)[POSE_PAIRS(model)[k][2]] + 1]
            IN  (\E l \in images[shown] : l[1] = "line" /\ l[2] = k)
                  <=> /\ a # None
                      /\ b # None
                      /\ a[3][1] * vis_threshold[2] > vis_threshold[1] * a[3][2]
                      /\ b[3][1] * vis_threshold[2] > vis_threshold[1] * b[3][2]

\* C6's case: one pair is drawn, another has one end above the threshold
\* and the other end present but not above it, and is not drawn.
C6_Witness ==
    /\ pose_pc = "visualized"
    /\ \E l \in images[shown] : l[1] = "line"
    /\ \E k \in 1..Len(POSE_PAIRS(model)) :
          LET a == keypoints[BODY_PARTS(model)[POSE_PAIRS(model)[k][1]] + 1]
              b == keypoints[BODY_PARTS(model)[POSE_PAIRS(model)[k][2]] + 1]
          IN  /\ a # None
              /\ b # None
              /\ Gt(a[3], vis_threshold)
              /\ ~Gt(b[3], vis_threshold)
              /\ ~\E l \in images[shown] : l[1] = "line" /\ l[2] = k

\* C7: pose_keypoints has exactly 3 * len(BODY_PARTS) values, an absent
\* keypoint giving missing_val three times and a present one its own
\* (x, y, confidence), and people has exactly one entry.
C7_JsonShape ==
    pose_pc = "json" =>
        LET flat == pose_json.people[1].pose_keypoints
        IN  /\ Len(pose_json.people) = 1
            /\ Len(flat) = 3 * Cardinality(DOMAIN BODY_PARTS(model))
            /\ Len(keypoints) = Cardinality(DOMAIN BODY_PARTS(model))
            /\ \A i \in 1..Len(keypoints) :
                  IF keypoints[i] = None
                  THEN \A k \in (3 * i - 2)..(3 * i) : flat[k] = missing_val
                  ELSE \A k \in 1..3 : flat[3 * (i - 1) + k] = keypoints[i][k]

\* C7's case: a record made from a pose with an absent and a present keypoint.
C7_Witness ==
    /\ pose_pc = "json"
    /\ \E i \in 1..Len(keypoints) : keypoints[i] = None
    /\ \E j \in 1..Len(keypoints) : keypoints[j] # None

\* C8: visualize leaves the caller's image and the keypoints list as they
\* were; what it draws is on the copy it returns.
C8_VisualizeLeavesInputs ==
    [][ (pose_pc = "predicted" /\ pose_pc' = "visualized") =>
          /\ images'[Img] = images[Img]
          /\ keypoints' = keypoints
          /\ shown' # Img
          /\ images[Img] \subseteq images'[shown']
          /\ \A i \in 1..NumParts(model) :
                (keypoints[i] # None /\ Gt(keypoints[i][3], vis_threshold')) =>
                    /\ \E l \in images'[shown'] : l[1] = "circle" /\ l[2] = i - 1
                    /\ put_text' => \E l \in images'[shown'] : l[1] = "text" /\ l[2] = i - 1 ]_vars

\* C8's case: visualize has drawn markers, labels and a segment.
C8_Witness ==
    /\ pose_pc = "visualized"
    /\ put_text
    /\ \E l \in images[shown] : l[1] = "circle"
    /\ \E l \in images[shown] : l[1] = "text"
    /\ \E l \in images[shown] : l[1] = "line"

\* C9: files are processed train slice, val slice, test slice, each in list
\* order; when one copy or move fails the error leaves random_split at
\* once: no later file is processed, the files processed before stay in
\* their destination, and 'Split done' is not printed.
C9_OrderAndPropagation ==
    /\ pc \in {"copy", "raised", "done"} =>
          IsPrefix(copied, Jobs(train, "train") \o Jobs(val, "val") \o Jobs(test, "test"))
    /\ failed_at # 0 =>
          /\ pc = "raised"
          /\ Len(copied) = failed_at - 1
          /\ report = NoReport
          /\ \A i \in 1..Len(copied) :
                /\ \E f \in dest : f[1] = copied[i][2] /\ f[2] = Basename(copied[i][1])
                /\ move => copied[i][1] \notin src

\* C9's case: the copy of a val file failed after a train file was copied,
\* with a test file still to come.
C9_Witness ==
    /\ pc = "raised"
    /\ train_ratio >= 0
    /\ val_ratio >= 0
    /\ Len(train) > 0
    /\ Len(test) > 0
    /\ failed_at = Len(train) + 1
    /\ Len(val) > 0

\* C10: after a successful run every input file is in exactly one
\* destination directory, each directory holds as many files of this run as
\* its slice has paths, and the sources are all there (copy) or all gone
\* (move).  Stated for ratios within [0, 1], where the slices partition the
\* input.
C10_EveryFileArrives ==
    (pc = "done" /\ train_ratio >= 0 /\ val_ratio >= 0) =>
        /\ \A p \in src0 : Cardinality({ f \in dest : f[3] = p }) = 1
        /\ Cardinality({ f \in dest : f[1] = "train" }) = Len(train)
        /\ Cardinality({ f \in dest : f[1] = "val" }) = Len(val)
        /\ Cardinality({ f \in dest : f[1] = "test" }) = Len(test)
        /\ move => src = {}
        /\ ~move => src = src0

====
